---- MODULE Spec2Model ----
(***************************************************************************)
(* Model of src/main.py: the e-mail -> text -> word-count -> vector        *)
(* preprocessing of the spam classifier.                                   *)
(*                                                                         *)
(* A text is a sequence of one-character strings.  A Counter / dict is a   *)
(* sequence of <<key, value>> pairs with distinct keys, in insertion order *)
(* (Python dicts iterate in insertion order, and Counter.most_common       *)
(* relies on it for ties).                                                 *)
(***************************************************************************)
EXTENDS Integers, Sequences, FiniteSets, TLC

VARIABLES
    vocabulary_size,  \* WordCounterToVectorTransformer.vocabulary_size
    vocabulary_,      \* WordCounterToVectorTransformer.vocabulary_ (word -> index)
    fitted,           \* whether the attribute vocabulary_ exists
    lastFitX,         \* history: the batch handed to the most recent fit
    call,             \* the last call made on the vectorizer / pipeline
    tX,               \* the batch handed to the last vectorizer transform
    out,              \* what the last vectorizer transform returned
    seen,             \* history: every word handed to the vectorizer so far
    email,            \* argument of email_to_text
    text,             \* result of email_to_text
    numIn,            \* text entering the number-replacement step
    numOut,           \* text leaving the number-replacement step
    tokX,             \* batch handed to EmailToWordCounterTransformer.transform
    tokFlags,         \* configuration of the EmailToWordCounterTransformer
    tokOut            \* what EmailToWordCounterTransformer.transform returned

vars == <<vocabulary_size, vocabulary_, fitted, lastFitX, call, tX, out, seen,
          email, text, numIn, numOut, tokX, tokFlags, tokOut>>

vecVars == <<vocabulary_size, vocabulary_, fitted, lastFitX, call, tX, out, seen>>
emailVars == <<email, text>>
numVars == <<numIn, numOut>>
tokVars == <<tokX, tokFlags, tokOut>>

(***************************************************************************)
(* Bounds of the model.                                                    *)
(***************************************************************************)
MaxBatch == 2      \* longest batch of WordCounts handed to fit
MaxVocab == 2      \* largest vocabulary_size
MaxParts == 2      \* most children of a generated multipart message
MaxNumLen == 5     \* longest generated text for the number step
MaxTokBatch == 2   \* longest batch of e-mails handed to the tokenizer

(***************************************************************************)
(* Characters and Python's str / re character classes.                     *)
(***************************************************************************)
NBSP == "U+00A0"   \* the single character html.unescape yields for &nbsp;

UpperCase == <<"A","B","C","D","E","F","G","H","I","J","K","L","M",
               "N","O","P","Q","R","S","T","U","V","W","X","Y","Z">>
LowerCase == <<"a","b","c","d","e","f","g","h","i","j","k","l","m",
               "n","o","p","q","r","s","t","u","v","w","x","y","z">>
Digits == {"0","1","2","3","4","5","6","7","8","9"}
Whitespace == {" ", "\n", "\t", "\r", NBSP}

Range(s) == {s[i] : i \in 1..Len(s)}

\* \w
WordChars == Range(UpperCase) \cup Range(LowerCase) \cup Digits \cup {"_"}

IsDigit(c) == c \in Digits
IsSpace(c) == c \in Whitespace
IsWordChar(c) == c \in WordChars

LowerOf == [c \in Range(UpperCase) |->
               LowerCase[CHOOSE i \in 1..Len(UpperCase) : UpperCase[i] = c]]

LowerChar(c) == IF c \in DOMAIN LowerOf THEN LowerOf[c] ELSE c

\* str.lower()
lower(s) == [i \in 1..Len(s) |-> LowerChar(s[i])]

\* s[i:], 1-based
From(s, i) == IF i > Len(s) THEN <<>> ELSE SubSeq(s, i, Len(s))

\* does s carry p at position i
StartsWithAt(s, i, p) ==
    /\ i >= 1
    /\ i + Len(p) - 1 <= Len(s)
    /\ \A k \in 1..Len(p) : s[i + k - 1] = p[k]

\* the same under re.I
StartsWithAtI(s, i, p) ==
    /\ i >= 1
    /\ i + Len(p) - 1 <= Len(s)
    /\ \A k \in 1..Len(p) : LowerChar(s[i + k - 1]) = LowerChar(p[k])

\* first position >= i where s carries p, 0 when there is none
IndexFrom(s, i, p) ==
    LET hits == {k \in i..Len(s) : StartsWithAt(s, k, p)}
    IN IF hits = {} THEN 0 ELSE CHOOSE k \in hits : \A m \in hits : k <= m

IndexFromI(s, i, p) == IndexFrom(lower(s), i, lower(p))

\* end of the maximal run of characters of class cls starting at i (i-1 when empty)
RECURSIVE RunEnd(_, _, _)
RunEnd(s, i, cls) ==
    IF i <= Len(s) /\ s[i] \in cls THEN RunEnd(s, i + 1, cls) ELSE i - 1

(***************************************************************************)
(* html_to_plain_text (src/main.py:118-123): four re.sub passes and        *)
(* html.unescape.  Every pattern matches at least one character, so re.sub *)
(* scans left to right, replaces the leftmost match and resumes after it.  *)
(***************************************************************************)

\* re.sub("<head.*?>.*?</head>", "", html, flags=M|S|I).  With the lazy .*? the
\* match at i ends at the first "</head>" after the first ">" after "<head".
HeadMatchEnd(s, i) ==
    IF ~StartsWithAtI(s, i, <<"<","h","e","a","d">>) THEN 0
    ELSE LET j == IndexFrom(s, i + 5, <<">">>)
             k == IF j = 0 THEN 0
                  ELSE IndexFromI(s, j + 1, <<"<","/","h","e","a","d",">">>)
         IN IF k = 0 THEN 0 ELSE k + 6

RECURSIVE SubHead(_, _)
SubHead(s, i) ==
    IF i > Len(s) THEN <<>>
    ELSE LET e == HeadMatchEnd(s, i)
         IN IF e # 0 THEN SubHead(s, e + 1)
            ELSE <<s[i]>> \o SubHead(s, i + 1)

HYPERLINK == <<" ","H","Y","P","E","R","L","I","N","K"," ">>

\* re.sub("<a\s.*?>", " HYPERLINK ", text, flags=M|S|I)
AnchorMatchEnd(s, i) ==
    IF /\ StartsWithAtI(s, i, <<"<","a">>)
       /\ i + 2 <= Len(s)
       /\ IsSpace(s[i + 2])
    THEN IndexFrom(s, i + 3, <<">">>)
    ELSE 0

RECURSIVE SubAnchor(_, _)
SubAnchor(s, i) ==
    IF i > Len(s) THEN <<>>
    ELSE LET e == AnchorMatchEnd(s, i)
         IN IF e # 0 THEN HYPERLINK \o SubAnchor(s, e + 1)
            ELSE <<s[i]>> \o SubAnchor(s, i + 1)

\* re.sub("<.*?>", "", text, flags=M|S)
TagMatchEnd(s, i) ==
    IF s[i] = "<" THEN IndexFrom(s, i + 1, <<">">>) ELSE 0

RECURSIVE SubTags(_, _)
SubTags(s, i) ==
    IF i > Len(s) THEN <<>>
    ELSE LET e == TagMatchEnd(s, i)
         IN IF e # 0 THEN SubTags(s, e + 1)
            ELSE <<s[i]>> \o SubTags(s, i + 1)

\* re.sub(r"(\s*\n)+", "\n", text): a match at i runs to the last newline of
\* the maximal whitespace run that starts at i.
NewlineMatchEnd(s, i) ==
    LET r == RunEnd(s, i, Whitespace)
        nl == {k \in i..r : s[k] = "\n"}
    IN IF nl = {} THEN 0 ELSE CHOOSE k \in nl : \A m \in nl : m <= k

RECURSIVE SubNewlines(_, _)
SubNewlines(s, i) ==
    IF i > Len(s) THEN <<>>
    ELSE LET e == NewlineMatchEnd(s, i)
         IN IF e # 0 THEN <<"\n">> \o SubNewlines(s, e + 1)
            ELSE <<s[i]>> \o SubNewlines(s, i + 1)

\* html.entities.html5, the entries the texts of the model can name
Html5Names == { <<"a","m","p",";">>, <<"a","m","p">>, <<"l","t",";">>, <<"l","t">>,
                <<"g","t",";">>, <<"g","t">>, <<"n","b","s","p",";">>, <<"n","b","s","p">> }

Html5(name) ==
    IF name[1] = "a" THEN <<"&">>
    ELSE IF name[1] = "l" THEN <<"<">>
    ELSE IF name[1] = "g" THEN <<">">>
    ELSE <<NBSP>>

\* the characters [^\t\n\f <&#;] of html._charref end a name at any of these
CharrefStop == {"\t", "\n", "\f", " ", "<", "&", "#", ";"}

\* end of the named reference that starts after the "&" at i: up to 32 name
\* characters and an optional ";" (0 when the name is empty)
CharrefEnd(s, i) ==
    LET stops == {k \in (i + 1)..Len(s) : s[k] \in CharrefStop}
        stop == IF stops = {} THEN Len(s) + 1
                ELSE CHOOSE k \in stops : \A m \in stops : k <= m
        last == IF stop - 1 > i + 32 THEN i + 32 ELSE stop - 1
    IN IF last <= i THEN 0
       ELSE IF last + 1 <= Len(s) /\ s[last + 1] = ";" THEN last + 1 ELSE last

\* html._replace_charref on a named reference
ReplaceCharref(name) ==
    IF name \in Html5Names THEN Html5(name)
    ELSE LET pre == {x \in 2..(Len(name) - 1) : SubSeq(name, 1, x) \in Html5Names}
         IN IF pre = {} THEN <<"&">> \o name
            ELSE LET x == CHOOSE y \in pre : \A z \in pre : z <= y
                 IN Html5(SubSeq(name, 1, x)) \o From(name, x + 1)

\* html.unescape
RECURSIVE unescape_from(_, _)
unescape_from(s, i) ==
    IF i > Len(s) THEN <<>>
    ELSE LET e == IF s[i] = "&" THEN CharrefEnd(s, i) ELSE 0
         IN IF e # 0
            THEN ReplaceCharref(SubSeq(s, i + 1, e)) \o unescape_from(s, e + 1)
            ELSE <<s[i]>> \o unescape_from(s, i + 1)

unescape(s) == unescape_from(s, 1)

html_to_plain_text(html) ==
    LET t1 == SubHead(html, 1)
        t2 == SubAnchor(t1, 1)
        t3 == SubTags(t2, 1)
        t4 == SubNewlines(t3, 1)
    IN unescape(t4)

(***************************************************************************)
(* Messages.  A parsed message is what the email package hands over: its   *)
(* content type, what get_content() returns (or that it raises), what      *)
(* get_payload() returns, and its sub-parts.                               *)
(***************************************************************************)
Leaf(ct, c, p, d) ==
    [ctype |-> ct, multipart |-> FALSE, content |-> c, payload |-> p,
     decodes |-> d, parts |-> <<>>]

Multipart(ps) ==
    [ctype |-> "multipart/mixed", multipart |-> TRUE, content |-> <<>>,
     payload |-> <<>>, decodes |-> FALSE, parts |-> ps]

\* email.message.Message.walk(): the message, then each sub-part's walk in order
RECURSIVE walk(_)
RECURSIVE walk_parts(_, _)
walk(m) == <<m>> \o (IF m.multipart THEN walk_parts(m.parts, 1) ELSE <<>>)
walk_parts(ps, i) ==
    IF i > Len(ps) THEN <<>> ELSE walk(ps[i]) \o walk_parts(ps, i + 1)

None == [none |-> TRUE, str |-> <<>>]
Str(s) == [none |-> FALSE, str |-> s]

\* lines 148-151: get_content(), or on any exception str(get_payload())
part_content_no_fallback(part) == IF part.decodes THEN part.content ELSE <<>>
part_content(part) == IF part.decodes THEN part.content ELSE part.payload

\* the for loop of email_to_text from the i-th walked part on, html as recorded
\* so far, and the "if html:" after it
RECURSIVE email_to_text_loop(_, _, _)
email_to_text_loop(ps, i, html) ==
    IF i > Len(ps)
    THEN IF ~html.none /\ html.str # <<>>
         THEN Str(html_to_plain_text(html.str))
         ELSE None
    ELSE LET part == ps[i]
             ctype == part.ctype
         IN IF ctype \notin {"text/plain", "text/html"}
            THEN email_to_text_loop(ps, i + 1, html)
            ELSE LET content == part_content(part)
                 IN IF ctype = "text/plain"
                    THEN Str(content)
                    ELSE email_to_text_loop(ps, i + 1, Str(content))

email_to_text_last_plain(m) ==
    LET ps == walk(m)
        pl == {i \in 1..Len(ps) : ps[i].ctype = "text/plain"}
    IN IF pl = {} THEN email_to_text_loop(ps, 1, None)
       ELSE Str(part_content(ps[CHOOSE i \in pl : \A j \in pl : j <= i]))
email_to_text(m) == email_to_text_loop(walk(m), 1, None)

(***************************************************************************)
(* The messages of the model.                                              *)
(***************************************************************************)
SeqsUpTo(S, n) == UNION {[1..k -> S] : k \in 0..n}

ContentA == <<"<","b",">","H","i","<","/","b",">"," ","&","a","m","p",";">>
ContentB == <<"x","\n"," ","\n","y">>
PayloadA == <<"<","i",">","=","4","8">>

TextTypes == {"text/plain", "text/html"}

TextLeaves ==
    {Leaf(ct, c, PayloadA, TRUE) : ct \in TextTypes, c \in {<<>>, ContentA, ContentB}}
    \cup {Leaf(ct, <<>>, p, FALSE) : ct \in TextTypes, p \in {<<>>, PayloadA}}

ImageLeaf == Leaf("image/png", <<>>, PayloadA, FALSE)

Leaves == TextLeaves \cup {ImageLeaf}

NestLeaves ==
    { Leaf("text/plain", ContentB, PayloadA, TRUE),
      Leaf("text/html", ContentA, PayloadA, TRUE),
      Leaf("text/html", <<>>, PayloadA, FALSE),
      ImageLeaf }

Emails ==
    Leaves
    \cup {Multipart(ps) : ps \in SeqsUpTo(Leaves, MaxParts)}
    \cup {Multipart(<<Multipart(<<a, b>>), c>>) : a \in NestLeaves, b \in NestLeaves, c \in NestLeaves}

(***************************************************************************)
(* SpecEmail: email_to_text applied to any message of the model.           *)
(***************************************************************************)
Pending == [called |-> FALSE, none |-> TRUE, str |-> <<>>]
Returned(r) == [called |-> TRUE, none |-> r.none, str |-> r.str]

IdleVec ==
    /\ vocabulary_size = 0
    /\ vocabulary_ = [w \in {} |-> 0]
    /\ fitted = FALSE
    /\ lastFitX = <<>>
    /\ call = "none"
    /\ tX = <<>>
    /\ out = <<>>
    /\ seen = {}

IdleEmail == email = ImageLeaf /\ text = Pending
IdleNum == numIn = <<>> /\ numOut = [done |-> FALSE, value |-> <<>>]
IdleTok ==
    /\ tokX = <<>>
    /\ tokFlags = <<>>
    /\ tokOut = [done |-> FALSE, value |-> <<>>]

InitEmail ==
    /\ email \in Emails
    /\ text = Pending
    /\ IdleVec /\ IdleNum /\ IdleTok

EmailToText ==
    /\ ~text.called
    /\ text' = Returned(email_to_text(email))
    /\ UNCHANGED <<email, vecVars, numVars, tokVars>>

NextEmail == EmailToText

SpecEmail == InitEmail /\ [][NextEmail]_vars

(***************************************************************************)
(* EmailToWordCounterTransformer (src/main.py:187-230).                    *)
(***************************************************************************)

\* collections.Counter: c[w] += n
CounterAdd(c, w, n) ==
    IF \E i \in 1..Len(c) : c[i][1] = w
    THEN [i \in 1..Len(c) |-> IF c[i][1] = w THEN <<w, c[i][2] + n>> ELSE c[i]]
    ELSE Append(c, <<w, n>>)

Keys(c) == {c[i][1] : i \in 1..Len(c)}
Get(c, w, default) ==
    IF w \in Keys(c) THEN c[CHOOSE i \in 1..Len(c) : c[i][1] = w][2] ELSE default

\* str.replace(old, new) for a non-empty old
RECURSIVE replace(_, _, _, _)
replace(s, old, new, i) ==
    IF i > Len(s) THEN <<>>
    ELSE IF StartsWithAt(s, i, old) THEN new \o replace(s, old, new, i + Len(old))
    ELSE <<s[i]>> \o replace(s, old, new, i + 1)

\* str.split(): the maximal runs of non-whitespace characters
RECURSIVE split(_, _)
split(s, i) ==
    IF i > Len(s) THEN <<>>
    ELSE IF IsSpace(s[i]) THEN split(s, i + 1)
    ELSE LET e == CHOOSE k \in i..Len(s) :
                     /\ \A m \in i..k : ~IsSpace(s[m])
                     /\ (k = Len(s) \/ IsSpace(s[k + 1]))
         IN <<SubSeq(s, i, e)>> \o split(s, e + 1)

\* urlextract.URLExtract().find_urls on the texts of the model: the words the
\* extractor reports as URLs, in order of occurrence
UrlWords == { <<"g","i","t","h","u","b",".","c","o","m">>,
              <<"g","i","t","h","u","b",".","c","o","m","/","a">> }

find_urls(s) == SelectSeq(split(s, 1), LAMBDA w : w \in UrlWords)

\* list(set(urls))
RECURSIVE unique(_, _)
unique(ws, i) ==
    IF i > Len(ws) THEN <<>>
    ELSE IF \E k \in 1..(i - 1) : ws[k] = ws[i] THEN unique(ws, i + 1)
    ELSE <<ws[i]>> \o unique(ws, i + 1)

\* list.sort(key=..., reverse=True) and sorted(..., reverse=True) over
\* <<item, key>> pairs: stable, the pairs with equal keys keep their order
InsertDesc(sorted, x) ==
    LET n == Cardinality({k \in 1..Len(sorted) : sorted[k][2] >= x[2]})
    IN SubSeq(sorted, 1, n) \o <<x>> \o From(sorted, n + 1)

RECURSIVE sort_desc(_)
sort_desc(xs) ==
    IF xs = <<>> THEN <<>>
    ELSE InsertDesc(sort_desc(SubSeq(xs, 1, Len(xs) - 1)), xs[Len(xs)])

URL == <<" ","U","R","L"," ">>

RECURSIVE replace_all_urls(_, _, _)
replace_all_urls(s, urls, i) ==
    IF i > Len(urls) THEN s
    ELSE replace_all_urls(replace(s, urls[i], URL, 1), urls, i + 1)

\* line 215: urls.sort(key=lambda url: len(url), reverse=True)
WithLen(urls) == [k \in 1..Len(urls) |-> <<urls[k], Len(urls[k])>>]
Firsts(pairs) == [k \in 1..Len(pairs) |-> pairs[k][1]]
sort_by_len_desc(urls) == Firsts(sort_desc(WithLen(urls)))

\* lines 214-217
replace_urls(s) ==
    replace_all_urls(s, sort_by_len_desc(unique(find_urls(s), 1)), 1)

NUMBER == <<"N","U","M","B","E","R">>

NumberMatchEnd_int_only(s, i) ==
    IF ~IsDigit(s[i]) THEN 0 ELSE i

\* one match of \d+(?:\.\d*)?(?:[eE][+-]?\d+)? at i: its last position, 0 if none
NumberMatchEnd(s, i) ==
    IF ~IsDigit(s[i]) THEN 0
    ELSE LET d == RunEnd(s, i + 1, Digits)
             f == IF d + 1 <= Len(s) /\ s[d + 1] = "."
                  THEN RunEnd(s, d + 2, Digits) ELSE d
             ds == IF f + 2 <= Len(s) /\ s[f + 2] \in {"+", "-"} THEN f + 3 ELSE f + 2
             de == RunEnd(s, ds, Digits)
         IN IF f + 1 <= Len(s) /\ s[f + 1] \in {"e", "E"} /\ de >= ds THEN de ELSE f

\* line 219: re.sub(r"\d+(?:\.\d*)?(?:[eE][+-]?\d+)?", "NUMBER", text)
RECURSIVE SubNumbers(_, _)
SubNumbers(s, i) ==
    IF i > Len(s) THEN <<>>
    ELSE LET e == NumberMatchEnd(s, i)
         IN IF e # 0 THEN NUMBER \o SubNumbers(s, e + 1)
            ELSE <<s[i]>> \o SubNumbers(s, i + 1)

replace_numbers(s) == SubNumbers(s, 1)

\* line 221: re.sub(r"\W+", " ", text)
RECURSIVE SubNonWord(_, _)
SubNonWord(s, i) ==
    IF i > Len(s) THEN <<>>
    ELSE IF IsWordChar(s[i]) THEN <<s[i]>> \o SubNonWord(s, i + 1)
    ELSE LET e == CHOOSE k \in i..Len(s) :
                     /\ \A m \in i..k : ~IsWordChar(s[m])
                     /\ (k = Len(s) \/ IsWordChar(s[k + 1]))
         IN <<" ">> \o SubNonWord(s, e + 1)

remove_punctuation(s) == SubNonWord(s, 1)

\* nltk.PorterStemmer().stem on the words of the model (lines 165-174 list the
\* first six); stem() lower-cases its argument
StemComput == { <<"c","o","m","p","u","t","a","t","i","o","n","s">>,
                <<"c","o","m","p","u","t","a","t","i","o","n">>,
                <<"c","o","m","p","u","t","i","n","g">>,
                <<"c","o","m","p","u","t","e","d">>,
                <<"c","o","m","p","u","t","e">> }

stem(word) ==
    LET w == lower(word)
    IN IF w \in StemComput THEN <<"c","o","m","p","u","t">>
       ELSE IF w = <<"c","o","m","p","u","l","s","i","v","e">>
            THEN <<"c","o","m","p","u","l","s">>
       ELSE IF w = <<"u","n","i","t","s">> THEN <<"u","n","i","t">>
       ELSE w

\* Counter(words)
RECURSIVE Counter(_, _)
Counter(ws, i) ==
    IF i = 0 THEN <<>> ELSE CounterAdd(Counter(ws, i - 1), ws[i], 1)

\* lines 224-228
RECURSIVE stem_counts(_, _)
stem_counts(wc, i) ==
    IF i = 0 THEN <<>>
    ELSE CounterAdd(stem_counts(wc, i - 1), stem(wc[i][1]), wc[i][2])

\* line 210: email_to_text(email) or ""
OrEmpty(r) == IF r.none \/ r.str = <<>> THEN <<>> ELSE r.str

\* lines 211-221: the text steps, each under its flag
LowerStep(t, flags) == IF flags.lower_case THEN lower(t) ELSE t
UrlStep(t, flags) == IF flags.replace_urls THEN replace_urls(t) ELSE t
NumberStep(t, flags) == IF flags.replace_numbers THEN replace_numbers(t) ELSE t
PunctuationStep(t, flags) == IF flags.remove_punctuation THEN remove_punctuation(t) ELSE t

\* line 222: Counter(text.split())
CountWords(words) == Counter(words, Len(words))

\* lines 223-228
StemStep(word_counts, flags) ==
    IF flags.stemming THEN stem_counts(word_counts, Len(word_counts)) ELSE word_counts

\* the body of the for loop, lines 210-228
email_to_word_count(m, flags) ==
    StemStep(CountWords(split(
        PunctuationStep(NumberStep(UrlStep(LowerStep(
            OrEmpty(email_to_text(m)), flags), flags), flags), flags), 1)), flags)

\* EmailToWordCounterTransformer.transform: X_transformed after the first i e-mails
RECURSIVE tok_transform_loop(_, _, _)
tok_transform_loop(X, flags, i) ==
    IF i = 0 THEN <<>>
    ELSE Append(tok_transform_loop(X, flags, i - 1), email_to_word_count(X[i], flags))

tok_transform_skip_empty(X, flags) ==
    SelectSeq(tok_transform_loop(X, flags, Len(X)), LAMBDA wc : wc # <<>>)
tok_transform(X, flags) == tok_transform_loop(X, flags, Len(X))

DefaultFlags ==
    [strip_headers |-> TRUE, lower_case |-> TRUE, remove_punctuation |-> TRUE,
     replace_urls |-> TRUE, replace_numbers |-> TRUE, stemming |-> TRUE]

(***************************************************************************)
(* WordCounterToVectorTransformer (src/main.py:241-267).  self is the      *)
(* record of the instance's attributes; a method returns the instance      *)
(* after the call and, for transform, the matrix it returns.               *)
(***************************************************************************)
Cap == 10

Min(a, b) == IF a <= b THEN a ELSE b

\* seq[:n]
Take(seq, n) ==
    IF n >= 0 THEN SubSeq(seq, 1, Min(n, Len(seq)))
    ELSE SubSeq(seq, 1, IF Len(seq) + n > 0 THEN Len(seq) + n ELSE 0)

\* line 246: total_count = Counter(), whatever the instance holds
total_count_stale(self) ==
    [i \in 1..Cardinality(DOMAIN self.vocabulary_) |->
        <<CHOOSE w \in DOMAIN self.vocabulary_ : self.vocabulary_[w] = i, 0>>]
total_count_new(self) == <<>>

\* line 249: min(count, 10)
cap_count_none(count) == count
cap_count(count) == Min(count, Cap)

\* lines 248-249, the inner loop over one word_count
RECURSIVE add_word_count(_, _, _)
add_word_count(total_count, word_count, i) ==
    IF i = 0 THEN total_count
    ELSE CounterAdd(add_word_count(total_count, word_count, i - 1),
                    word_count[i][1], cap_count(word_count[i][2]))

\* lines 247-249, the loop over the batch
RECURSIVE total_counts(_, _, _)
total_counts(self, X, i) ==
    IF i = 0 THEN total_count_new(self)
    ELSE add_word_count(total_counts(self, X, i - 1), X[i], Len(X[i]))

\* Counter.most_common(): sorted(items, key=count, reverse=True)
most_common_unsorted(total_count) == total_count
most_common(total_count) == sort_desc(total_count)

\* lines 251-253: {word: index + 1 for index, (word, count) in enumerate(most_common)}
vocabulary_from_zero(ranked) ==
    [w \in {ranked[i][1] : i \in 1..Len(ranked)} |->
        (CHOOSE i \in 1..Len(ranked) : ranked[i][1] = w) - 1]
vocabulary_from(ranked) ==
    [w \in {ranked[i][1] : i \in 1..Len(ranked)} |->
        CHOOSE i \in 1..Len(ranked) : ranked[i][1] = w]

\* WordCounterToVectorTransformer.fit
fit(self, X) ==
    LET total_count == total_counts(self, X, Len(X))
        ranked == Take(most_common(total_count), self.vocabulary_size)
    IN [self EXCEPT !.vocabulary_ = vocabulary_from(ranked), !.fitted = TRUE]

\* lines 260-264: the (row, col, data) triples in the order appended
RECURSIVE triples_of_row(_, _, _, _)
triples_of_row(voc, row, word_count, i) ==
    IF i = 0 THEN <<>>
    ELSE Append(triples_of_row(voc, row, word_count, i - 1),
                <<row, IF word_count[i][1] \in DOMAIN voc THEN voc[word_count[i][1]] ELSE 0,
                  word_count[i][2]>>)

RECURSIVE triples(_, _, _)
triples(voc, X, i) ==
    IF i = 0 THEN <<>>
    ELSE triples(voc, X, i - 1) \o triples_of_row(voc, i - 1, X[i], Len(X[i]))

RECURSIVE SumAt(_, _, _, _)
SumAt(ts, row, col, i) ==
    IF i = 0 THEN 0
    ELSE SumAt(ts, row, col, i - 1)
         + (IF ts[i][1] = row /\ ts[i][2] = col THEN ts[i][3] ELSE 0)

\* scipy.sparse.csr_matrix((data, (rows, cols)), shape): entries that share a
\* position are summed; the r-th element is row r-1, a function of the column
csr_matrix(ts, nrows, ncols) ==
    [r \in 1..nrows |-> [c \in 0..(ncols - 1) |-> SumAt(ts, r - 1, c, Len(ts))]]

transform_learns(self, X) ==
    LET novel == UNION {Keys(X[i]) : i \in 1..Len(X)} \ DOMAIN self.vocabulary_
        grown == [w \in DOMAIN self.vocabulary_ \cup novel |->
                    IF w \in novel THEN 0 ELSE self.vocabulary_[w]]
    IN [self |-> [self EXCEPT !.vocabulary_ = grown],
        result |-> csr_matrix(triples(self.vocabulary_, X, Len(X)), Len(X),
                              self.vocabulary_size + 1)]
transform_capped(self, X) ==
    LET capped == [i \in 1..Len(X) |-> [k \in 1..Len(X[i]) |-> <<X[i][k][1], Min(X[i][k][2], Cap)>>]]
    IN [self |-> self,
        result |-> csr_matrix(triples(self.vocabulary_, capped, Len(X)), Len(X),
                              self.vocabulary_size + 1)]
\* WordCounterToVectorTransformer.transform
transform(self, X) ==
    [self |-> self,
     result |-> csr_matrix(triples(self.vocabulary_, X, Len(X)), Len(X),
                           self.vocabulary_size + 1)]

(***************************************************************************)
(* The inputs of the model.                                                *)
(***************************************************************************)
A == <<"a">>
B == <<"b">>
Z == <<"z">>

\* word counts of the training batches: "a" 50 times in one message is the
\* stuffed word; both orders of "a" and "b" within a message occur
WordCounts ==
    { <<>>, <<<<A, 6>>>>, <<<<A, 50>>>>, <<<<B, 6>>>>,
      <<<<A, 6>>, <<B, 6>>>>, <<<<B, 6>>, <<A, 6>>>>, <<<<A, 50>>, <<B, 6>>>> }

FitBatches == SeqsUpTo(WordCounts, MaxBatch)

\* word counts of the batches transformed after fit: "z" is never trained on
TestWordCounts ==
    { <<>>, <<<<A, 11>>>>, <<<<Z, 50>>>>,
      <<<<A, 11>>, <<Z, 50>>>>, <<<<Z, 50>>, <<A, 11>>>> }

TestBatches ==
    {<<>>} \cup {<<w>> : w \in TestWordCounts}
    \cup {<<w, <<<<Z, 50>>, <<A, 11>>>>>> : w \in TestWordCounts}

\* the e-mails of the tokenizer and the pipeline
PlainOrder ==
    Leaf("text/plain",
         <<"O","r","d","e","r"," ","3",".","1","4"," ","u","n","i","t","s"," ",
           "o","r"," ","4","2"," ","t","o","t","a","l">>, PayloadA, TRUE)
HtmlComputing ==
    Leaf("text/html",
         <<"<","h","e","a","d",">","x","<","/","h","e","a","d",">",
           "<","a"," ","h","r","e","f","=","u",">","C","o","m","p","u","t","i","n","g",
           "<","/","a",">"," ","2"," ","&","a","m","p",";"," ",
           "C","o","m","p","u","t","e","d">>, PayloadA, TRUE)
PlainUrls ==
    Leaf("text/plain",
         <<"s","e","e"," ","g","i","t","h","u","b",".","c","o","m","/","a"," ",
           "o","r"," ","g","i","t","h","u","b",".","c","o","m">>, PayloadA, TRUE)
PlainShort == Leaf("text/plain", <<"O","r","d","e","r">>, PayloadA, TRUE)
MixedNoText == Multipart(<<ImageLeaf, Multipart(<<ImageLeaf>>)>>)
MixedHtmlPlain == Multipart(<<HtmlComputing, Multipart(<<ImageLeaf, PlainOrder>>)>>)

TokEmails == {PlainOrder, HtmlComputing, PlainUrls, MixedNoText, MixedHtmlPlain}

PipelineBatches ==
    { <<PlainOrder, HtmlComputing>>, <<MixedNoText, PlainUrls>>,
      <<MixedHtmlPlain>>, <<PlainUrls, PlainOrder, HtmlComputing>>, <<PlainShort>> }

(***************************************************************************)
(* Spec: one vectorizer, fitted once on a training batch (directly or as   *)
(* the last step of preprocess_pipeline) and then used to transform.       *)
(***************************************************************************)
Self == [vocabulary_size |-> vocabulary_size, vocabulary_ |-> vocabulary_,
         fitted |-> fitted]

NoVocabulary == [w \in {} |-> 0]

InitVec ==
    /\ vocabulary_size \in 0..MaxVocab
    /\ vocabulary_ = NoVocabulary
    /\ fitted = FALSE
    /\ lastFitX = <<>>
    /\ call = "none"
    /\ tX = <<>>
    /\ out = <<>>
    /\ seen = {}

Init == InitVec /\ IdleEmail /\ IdleNum /\ IdleTok

SetSelf(self) ==
    /\ vocabulary_size' = self.vocabulary_size
    /\ vocabulary_' = self.vocabulary_
    /\ fitted' = self.fitted

WordsOf(X) == UNION {Keys(X[i]) : i \in 1..Len(X)}

FitResult(X, self) ==
    /\ SetSelf(self)
    /\ lastFitX' = X
    /\ seen' = seen \cup WordsOf(X)
    /\ call' = "fit"
    /\ tX' = <<>>
    /\ out' = <<>>
    /\ UNCHANGED <<emailVars, numVars, tokVars>>

FitCall(X) == \E self \in {fit(Self, X)} : FitResult(X, self)

TransformResult(X, r, name) ==
    /\ SetSelf(r.self)
    /\ out' = r.result
    /\ tX' = X
    /\ call' = name
    /\ seen' = seen \cup WordsOf(X)
    /\ UNCHANGED <<lastFitX, emailVars, numVars, tokVars>>

TransformCall(X, name) ==
    /\ fitted
    /\ \E r \in {transform(Self, X)} : TransformResult(X, r, name)

\* vocab_transformer.fit(X)
Fit(X) == ~fitted /\ FitCall(X)

\* vocab_transformer.transform(X), on the training batch or on unseen data
Transform(X) == TransformCall(X, "transform")

\* preprocess_pipeline.fit_transform(X_train), line 288: the tokenizer's
\* fit_transform, then the vectorizer's fit and transform on its output
FitTransformCall(Xt, r) ==
    /\ SetSelf(r.self)
    /\ lastFitX' = Xt
    /\ tX' = Xt
    /\ out' = r.result
    /\ seen' = seen \cup WordsOf(Xt)
    /\ call' = "pipeline.fit_transform"
    /\ UNCHANGED <<emailVars, numVars, tokVars>>

fit_transform(self, X) == transform(fit(self, X), X)

PipelineFit(Xt) == \E r \in {fit_transform(Self, Xt)} : FitTransformCall(Xt, r)

PipelineFitTransform(E) ==
    /\ ~fitted
    /\ \E Xt \in {tok_transform(E, DefaultFlags)} : PipelineFit(Xt)

\* preprocess_pipeline.transform(X_test), line 300
PipelineTransform(E) ==
    /\ call \in {"pipeline.fit_transform", "pipeline.transform"}
    /\ \E Xt \in {tok_transform(E, DefaultFlags)} : TransformCall(Xt, "pipeline.transform")

Next ==
    \/ \E X \in FitBatches : Fit(X)
    \/ \E X \in TestBatches \cup {lastFitX} : Transform(X)
    \/ \E E \in PipelineBatches : PipelineFitTransform(E)
    \/ \E E \in PipelineBatches : PipelineTransform(E)

Spec == Init /\ [][Next]_vars

(***************************************************************************)
(* SpecRefit: any sequence of fit and transform calls on one vectorizer.   *)
(***************************************************************************)
RefitTestBatches == { <<<<<<Z, 50>>, <<A, 11>>>>, <<<<B, 6>>>>>> }

Refit(X) == FitCall(X)

TransformAgain(X) == TransformCall(X, "transform")

NextRefit ==
    \/ \E X \in FitBatches : Refit(X)
    \/ \E X \in RefitTestBatches : TransformAgain(X)

SpecRefit == Init /\ [][NextRefit]_vars

(***************************************************************************)
(* SpecNumbers: the number-replacement step on any text of the model.      *)
(***************************************************************************)
NumChars == {"1", ".", "e", "-", "x"}

NumTexts ==
    SeqsUpTo(NumChars, MaxNumLen)
    \cup { <<"O","r","d","e","r"," ","3",".","1","4"," ","u","n","i","t","s"," ",
             "o","r"," ","4","2"," ","t","o","t","a","l">>,
           <<"3",".","1","4","e","-","2">>,
           <<"7","E","+","2","0"," ","9",".",".","5","e","+">> }

NotRun == [done |-> FALSE, value |-> <<>>]
Done(v) == [done |-> TRUE, value |-> v]

InitNumbers ==
    /\ numIn \in NumTexts
    /\ numOut = NotRun
    /\ IdleVec /\ IdleEmail /\ IdleTok

ReplaceNumbers ==
    /\ numOut = NotRun
    /\ numOut' = Done(replace_numbers(numIn))
    /\ UNCHANGED <<numIn, vecVars, emailVars, tokVars>>

NextNumbers == ReplaceNumbers

SpecNumbers == InitNumbers /\ [][NextNumbers]_vars

(***************************************************************************)
(* SpecTokenizer: EmailToWordCounterTransformer.transform under any        *)
(* configuration on any batch of the model's e-mails.                      *)
(***************************************************************************)
Flags ==
    [strip_headers : {TRUE}, lower_case : BOOLEAN, remove_punctuation : BOOLEAN,
     replace_urls : BOOLEAN, replace_numbers : BOOLEAN, stemming : BOOLEAN]

InitTokenizer ==
    /\ tokX \in SeqsUpTo(TokEmails, MaxTokBatch)
    /\ tokFlags \in Flags
    /\ tokOut = NotRun
    /\ IdleVec /\ IdleEmail /\ IdleNum

TokTransform ==
    /\ tokOut = NotRun
    /\ tokOut' = Done(tok_transform(tokX, tokFlags))
    /\ UNCHANGED <<tokX, tokFlags, vecVars, emailVars, numVars>>

NextTokenizer == TokTransform

SpecTokenizer == InitTokenizer /\ [][NextTokenizer]_vars

(***************************************************************************)
(* Vocabulary claims, stated without the Counter and the sort of fit.      *)
(***************************************************************************)
Fresh == [vocabulary_size |-> vocabulary_size, vocabulary_ |-> NoVocabulary,
          fitted |-> FALSE]

CountIn(word_count, w) == Get(word_count, w, 0)

\* the sum over all messages of min(count in that message, 10)
RECURSIVE CappedTotal(_, _, _)
CappedTotal(X, w, i) ==
    IF i = 0 THEN 0 ELSE CappedTotal(X, w, i - 1) + Min(CountIn(X[i], w), 10)

\* where a word is first met: <<message, position in the message>>
FirstMet(X, w) ==
    LET i == CHOOSE j \in 1..Len(X) :
                 /\ w \in Keys(X[j])
                 /\ \A k \in 1..(j - 1) : w \notin Keys(X[k])
    IN <<i, CHOOSE k \in 1..Len(X[i]) : X[i][k][1] = w>>

MetBefore(X, u, w) ==
    LET a == FirstMet(X, u)
        b == FirstMet(X, w)
    IN a[1] < b[1] \/ (a[1] = b[1] /\ a[2] < b[2])

\* 1 + the number of words ranked ahead of w
Rank(X, w) ==
    1 + Cardinality({u \in WordsOf(X) :
            \/ CappedTotal(X, u, Len(X)) > CappedTotal(X, w, Len(X))
            \/ /\ CappedTotal(X, u, Len(X)) = CappedTotal(X, w, Len(X))
               /\ MetBefore(X, u, w)})

RankedVocabulary(X, N) ==
    [w \in {u \in WordsOf(X) : Rank(X, u) <= N} |-> Rank(X, w)]

\* C1: after fit with vocabulary_size = N >= 0 the vocabulary has at most N
\* entries, its indices are pairwise distinct and are exactly 1..K with
\* K = min(N, number of distinct words of the batch), and none is 0.
C1_VocabularyIndices ==
    fitted =>
        LET K == Min(vocabulary_size, Cardinality(WordsOf(lastFitX)))
            words == DOMAIN vocabulary_
        IN /\ Cardinality(words) <= vocabulary_size
           /\ \A u \in words : \A w \in words : vocabulary_[u] = vocabulary_[w] => u = w
           /\ {vocabulary_[w] : w \in words} = 1..K
           /\ \A w \in words : vocabulary_[w] # 0

C1_Witness ==
    /\ fitted
    /\ vocabulary_size >= 1
    /\ Cardinality(WordsOf(lastFitX)) > vocabulary_size
    /\ Cardinality(DOMAIN vocabulary_) = vocabulary_size

\* C2: fit ranks the words by capped total (the sum over the messages of
\* min(count, 10)), descending, ties in first-encounter order; the vocabulary
\* is the first vocabulary_size words of that ranking, indexed 1, 2, ... in it.
C2_RankedByCappedTotal ==
    fitted => vocabulary_ = RankedVocabulary(lastFitX, vocabulary_size)

\* "a" 50 times in one message and nowhere else loses the only slot to "b"
C2_Witness ==
    /\ fitted
    /\ vocabulary_size = 1
    /\ Cardinality({i \in 1..Len(lastFitX) : A \in Keys(lastFitX[i])}) = 1
    /\ \E i \in 1..Len(lastFitX) : CountIn(lastFitX[i], A) = 50
    /\ CappedTotal(lastFitX, B, Len(lastFitX)) > 10
    /\ vocabulary_ = (B :> 1)

Perms(X) ==
    {[i \in 1..Len(X) |-> X[p[i]]] : p \in Permutations(1..Len(X))}

DistinctTotals(X) ==
    \A u \in WordsOf(X) : \A w \in WordsOf(X) :
        CappedTotal(X, u, Len(X)) = CappedTotal(X, w, Len(X)) => u = w

WordAt(voc, i) == CHOOSE w \in DOMAIN voc : voc[w] = i

\* C5 as claimed: fitting any permutation of the batch yields the identical
\* vocabulary.
C5_AnyPermutationSameVocabulary ==
    fitted => \A P \in Perms(lastFitX) : fit(Fresh, P).vocabulary_ = vocabulary_

\* C5 as amended: fitting any permutation of the batch yields a vocabulary of
\* the same size whose i-th word has the same capped total, and the identical
\* vocabulary when no two words of the batch have equal capped totals.
C5_PermutationUpToTies ==
    fitted =>
        \A P \in Perms(lastFitX) :
            LET v == fit(Fresh, P).vocabulary_
                n == Cardinality(DOMAIN vocabulary_)
            IN /\ Cardinality(DOMAIN v) = n
               /\ \A i \in 1..n :
                    CappedTotal(lastFitX, WordAt(v, i), Len(lastFitX))
                    = CappedTotal(lastFitX, WordAt(vocabulary_, i), Len(lastFitX))
               /\ DistinctTotals(lastFitX) => v = vocabulary_

C5_Witness ==
    /\ fitted
    /\ Len(lastFitX) >= 2
    /\ lastFitX[1] # lastFitX[2]
    /\ Cardinality(WordsOf(lastFitX)) = 2
    /\ DistinctTotals(lastFitX)
    /\ FirstMet(lastFitX, A)[1] # FirstMet(lastFitX, B)[1]
    /\ vocabulary_size = 1
    /\ \A P \in Perms(lastFitX) : fit(Fresh, P).vocabulary_ = vocabulary_

\* C10: after any sequence of fit and transform calls the vocabulary is what
\* one fit of the most recent fit's batch gives on a fresh instance; nothing
\* of an earlier fit's batch or of a transformed batch carries over.
C10_VocabularyOfLastFitOnly ==
    fitted =>
        /\ vocabulary_ = fit(Fresh, lastFitX).vocabulary_
        /\ DOMAIN vocabulary_ \subseteq WordsOf(lastFitX)

\* words of earlier calls were seen, the vocabulary has room, none got in
C10_Witness ==
    /\ fitted
    /\ call = "fit"
    /\ \E w \in seen : w \notin WordsOf(lastFitX)
    /\ Z \in seen
    /\ WordsOf(lastFitX) # {}
    /\ Cardinality(DOMAIN vocabulary_) < vocabulary_size
    /\ DOMAIN vocabulary_ = WordsOf(lastFitX)

(***************************************************************************)
(* Transform claims.                                                       *)
(***************************************************************************)
Transformed == call \in {"transform", "pipeline.fit_transform", "pipeline.transform"}

RECURSIVE SumCounts(_, _)
SumCounts(word_count, words) ==
    IF words = {} THEN 0
    ELSE LET w == CHOOSE x \in words : TRUE
         IN CountIn(word_count, w) + SumCounts(word_count, words \ {w})

\* C3: transform returns one row per WordCount, of length vocabulary_size + 1;
\* position p >= 1 holds the uncapped count of the word with index p (0 if the
\* message lacks it), position 0 the sum of the uncapped counts of the words
\* absent from the vocabulary.
C3_TransformRows ==
    Transformed =>
        /\ Len(out) = Len(tX)
        /\ \A r \in 1..Len(tX) :
            /\ DOMAIN out[r] = 0..vocabulary_size
            /\ \A w \in DOMAIN vocabulary_ : out[r][vocabulary_[w]] = CountIn(tX[r], w)
            /\ \A q \in 1..vocabulary_size :
                 (\A w \in DOMAIN vocabulary_ : vocabulary_[w] # q) => out[r][q] = 0
            /\ out[r][0] = SumCounts(tX[r], Keys(tX[r]) \ DOMAIN vocabulary_)

\* a known word counted 11 times and a novel word counted 50 times in one row
C3_Witness ==
    /\ call = "transform"
    /\ Len(tX) = 2
    /\ A \in DOMAIN vocabulary_
    /\ Z \notin DOMAIN vocabulary_
    /\ \E r \in 1..Len(tX) :
        /\ CountIn(tX[r], A) = 11
        /\ CountIn(tX[r], Z) = 50
        /\ out[r][vocabulary_[A]] = 11
        /\ out[r][0] = 50

TransformStep == call' \in {"transform", "pipeline.transform"}

\* C4: once fit has established the vocabulary, a transform call, direct or
\* through the pipeline, on any batch leaves vocabulary_ and vocabulary_size
\* unchanged.
C4_TransformKeepsVocabulary ==
    [][TransformStep =>
        /\ vocabulary_' = vocabulary_
        /\ vocabulary_size' = vocabulary_size]_vars

\* a pipeline transform of e-mails with words the vocabulary lacks and has room for
C4_Witness ==
    /\ call = "pipeline.transform"
    /\ WordsOf(tX) \ DOMAIN vocabulary_ # {}
    /\ DOMAIN vocabulary_ # {}
    /\ Cardinality(DOMAIN vocabulary_) < vocabulary_size

(***************************************************************************)
(* email_to_text claims.  Document order is stated over the paths of the   *)
(* part tree (the sequence of child numbers leading to a part), not over   *)
(* walk().                                                                 *)
(***************************************************************************)
RECURSIVE PathsOf(_)
PathsOf(m) ==
    {<<>>} \cup
    (IF m.multipart
     THEN UNION {{<<i>> \o q : q \in PathsOf(m.parts[i])} : i \in 1..Len(m.parts)}
     ELSE {})

RECURSIVE PartAt(_, _)
PartAt(m, path) ==
    IF path = <<>> THEN m ELSE PartAt(m.parts[Head(path)], Tail(path))

\* depth-first document order: a part precedes its descendants, and an
\* earlier sibling's subtree precedes a later sibling's
PathBefore(a, b) ==
    /\ a # b
    /\ \/ /\ Len(a) < Len(b)
          /\ SubSeq(b, 1, Len(a)) = a
       \/ \E k \in 1..Min(Len(a), Len(b)) :
            /\ SubSeq(a, 1, k - 1) = SubSeq(b, 1, k - 1)
            /\ a[k] < b[k]

PathsOfType(m, ct) == {q \in PathsOf(m) : PartAt(m, q).ctype = ct}
FirstPath(S) == CHOOSE a \in S : \A b \in S \ {a} : PathBefore(a, b)
LastPath(S) == CHOOSE a \in S : \A b \in S \ {a} : PathBefore(b, a)

\* the decoded content of a part, its raw payload when decoding fails
ContentOrRaw(part) == IF part.decodes THEN part.content ELSE part.payload

FirstPlain(m) == ContentOrRaw(PartAt(m, FirstPath(PathsOfType(m, "text/plain"))))
LastHtml(m) == ContentOrRaw(PartAt(m, LastPath(PathsOfType(m, "text/html"))))

\* C6 as claimed: the first text/plain part's content if there is one, else
\* html_to_plain_text of the last text/html part's content if there is one,
\* else absent.
C6_PlainFirstElseLastHtml ==
    text.called =>
        text = Returned(
            IF PathsOfType(email, "text/plain") # {} THEN Str(FirstPlain(email))
            ELSE IF PathsOfType(email, "text/html") # {}
                 THEN Str(html_to_plain_text(LastHtml(email)))
            ELSE None)

\* C6 as amended: the same, except that the result is also absent when the
\* last text/html part's content is the empty string.
C6_PlainFirstElseLastNonEmptyHtml ==
    text.called =>
        text = Returned(
            IF PathsOfType(email, "text/plain") # {} THEN Str(FirstPlain(email))
            ELSE IF PathsOfType(email, "text/html") # {} /\ LastHtml(email) # <<>>
                 THEN Str(html_to_plain_text(LastHtml(email)))
            ELSE None)

\* no text/plain part, two text/html parts, the last one with empty content
C6_Witness ==
    /\ text.called
    /\ PathsOfType(email, "text/plain") = {}
    /\ Cardinality(PathsOfType(email, "text/html")) = 2
    /\ LastHtml(email) = <<>>
    /\ ContentOrRaw(PartAt(email, FirstPath(PathsOfType(email, "text/html")))) = ContentA
    /\ text = Returned(None)

\* the message with every undecodable text part replaced by a decodable part
\* whose content is the raw payload
RECURSIVE Decodable(_)
Decodable(m) ==
    IF m.multipart
    THEN [m EXCEPT !.parts = [i \in 1..Len(m.parts) |-> Decodable(m.parts[i])]]
    ELSE IF m.ctype \in TextTypes /\ ~m.decodes
         THEN [m EXCEPT !.content = m.payload, !.decodes = TRUE]
         ELSE m

\* C7: a decoding failure is not propagated; the raw payload stands in for
\* the decoded content and the selection rule is the same (returned at once
\* for text/plain, recorded as the HTML candidate for text/html).
C7_DecodeFallsBackToPayload ==
    text.called =>
        /\ text = Returned(email_to_text(Decodable(email)))
        /\ (/\ PathsOfType(email, "text/plain") # {}
            /\ ~PartAt(email, FirstPath(PathsOfType(email, "text/plain"))).decodes)
           => text = Returned(Str(PartAt(email, FirstPath(PathsOfType(email, "text/plain"))).payload))

\* an undecodable text/html part is the last one and no text/plain part exists
C7_Witness ==
    /\ text.called
    /\ PathsOfType(email, "text/plain") = {}
    /\ Cardinality(PathsOfType(email, "text/html")) = 2
    /\ ~PartAt(email, LastPath(PathsOfType(email, "text/html"))).decodes
    /\ PartAt(email, FirstPath(PathsOfType(email, "text/html"))).decodes
    /\ PartAt(email, FirstPath(PathsOfType(email, "text/html"))).content = ContentA
    /\ text = Returned(Str(html_to_plain_text(PayloadA)))

(***************************************************************************)
(* Tokenizer claims.                                                       *)
(***************************************************************************)
\* C8: transform returns one WordCount per message, in input order; the i-th
\* is computed from the i-th message alone, and a message without usable
\* text yields an empty WordCount at its position.
C8_OneWordCountPerMessage ==
    tokOut.done =>
        /\ Len(tokOut.value) = Len(tokX)
        /\ \A i \in 1..Len(tokX) :
            /\ tokOut.value[i] = email_to_word_count(tokX[i], tokFlags)
            /\ <<tokOut.value[i]>> = tok_transform(<<tokX[i]>>, tokFlags)
            /\ email_to_text(tokX[i]).none => tokOut.value[i] = <<>>

C8_Witness ==
    /\ tokOut.done
    /\ Len(tokX) = 2
    /\ email_to_text(tokX[1]).none
    /\ tokOut.value[1] = <<>>
    /\ tokOut.value[2] # <<>>
    /\ tokFlags = DefaultFlags

\* s is a digit run, optionally a "." and digits, optionally an exponent
IsNumeric(s) ==
    \E d \in 1..Len(s) : \E f \in d..Len(s) :
        /\ \A k \in 1..d : IsDigit(s[k])
        /\ f > d => s[d + 1] = "." /\ \A k \in (d + 2)..f : IsDigit(s[k])
        /\ \/ f = Len(s)
           \/ /\ s[f + 1] \in {"e", "E"}
              /\ \E g \in {f + 2, f + 3} :
                   /\ g <= Len(s)
                   /\ g = f + 3 => s[f + 2] \in {"+", "-"}
                   /\ \A k \in g..Len(s) : IsDigit(s[k])

\* the longest numeric substring that starts at i
LongestNumericEnd(s, i) ==
    LET ends == {j \in i..Len(s) : IsNumeric(SubSeq(s, i, j))}
    IN CHOOSE j \in ends : \A k \in ends : k <= j

\* the maximal numeric substrings from i on, left to right: <<first, last>>
RECURSIVE NumericSubstrings(_, _)
NumericSubstrings(s, i) ==
    IF i > Len(s) THEN <<>>
    ELSE IF IsDigit(s[i])
         THEN <<<<i, LongestNumericEnd(s, i)>>>> \o NumericSubstrings(s, LongestNumericEnd(s, i) + 1)
         ELSE NumericSubstrings(s, i + 1)

Occurrences(s, word) == Cardinality({i \in 1..Len(s) : StartsWithAt(s, i, word)})

RECURSIVE SumLengths(_, _)
SumLengths(spans, i) ==
    IF i = 0 THEN 0 ELSE SumLengths(spans, i - 1) + (spans[i][2] - spans[i][1] + 1)

\* C9: the step replaces every maximal numeric substring by one NUMBER: the
\* result has no digit and one NUMBER per maximal numeric substring, and
\* nothing else of the text is changed in length.
C9_EveryNumberReplaced ==
    numOut.done =>
        LET spans == NumericSubstrings(numIn, 1)
        IN /\ \A k \in 1..Len(numOut.value) : ~IsDigit(numOut.value[k])
           /\ Occurrences(numOut.value, NUMBER) = Len(spans) + Occurrences(numIn, NUMBER)
           /\ Len(numOut.value) = Len(numIn) - SumLengths(spans, Len(spans)) + 6 * Len(spans)

\* "Order 3.14 units or 42 total" yields exactly two NUMBER
C9_Witness ==
    /\ numOut.done
    /\ numIn = PlainOrder.content
    /\ Occurrences(numOut.value, NUMBER) = 2
    /\ Len(NumericSubstrings(numIn, 1)) = 2

====
